---- MODULE Spec2Model ----
(***************************************************************************)
(* Model of the SelfieCapture component (src/src/components/               *)
(* SelfieCapture.tsx): the detection provider, the quality scorer, the     *)
(* capture gate and the timer-driven analysis loop.                        *)
(*                                                                         *)
(* Units.  The code computes with JavaScript doubles; the model keeps      *)
(* integers at a fixed scale so that every comparison of the code is an    *)
(* exact integer comparison:                                               *)
(*   brightness, sharpness, contrast   percent            (30 is 30)       *)
(*   confidence                        thousandths        (0.8 is 800)     *)
(*   bounding box x, y, width, height  hundredths         (0.4 is 40)      *)
(*   faceSize                          1/100 of a percent (8% is 800)      *)
(*   facePosition x, y                 1/200              (0.5 is 100)     *)
(*   head pose                         degrees                             *)
(***************************************************************************)
EXTENDS Integers, Sequences, FiniteSets, TLC

Abs(n) == IF n < 0 THEN -n ELSE n

Min2(a, b) == IF a < b THEN a ELSE b

Max2(a, b) == IF a > b THEN a ELSE b

(***************************************************************************)
(* Quality scorer: calculateAPIQualityScore.  The code threads three       *)
(* locals (score, issues, recommendations) through seven if/else blocks;   *)
(* each block is one operator from an accumulator to an accumulator.       *)
(***************************************************************************)
Push(acc, pts, issue, rec) ==
  [score |-> acc.score + pts,
   issues |-> IF issue = "" THEN acc.issues ELSE Append(acc.issues, issue),
   recommendations |-> IF rec = "" THEN acc.recommendations
                       ELSE Append(acc.recommendations, rec)]

\* ScoreLighting with both bounds of the good range exclusive
ScoreLightingExclusive(acc, m) ==
  IF m.brightness > 30 /\ m.brightness < 85 THEN Push(acc, 20, "", "")
  ELSE IF m.brightness <= 30
       THEN Push(acc, 0, "Too dark", "Move to a brighter area or turn on more lights")
       ELSE Push(acc, 0, "Too bright", "Avoid direct sunlight or harsh lighting")

\* ScoreLighting with the award of the face criterion, 25, in place of 20
ScoreLightingAward25(acc, m) ==
  IF m.brightness >= 30 /\ m.brightness <= 85 THEN Push(acc, 25, "", "")
  ELSE IF m.brightness < 30
       THEN Push(acc, 0, "Too dark", "Move to a brighter area or turn on more lights")
       ELSE Push(acc, 0, "Too bright", "Avoid direct sunlight or harsh lighting")

ScoreLighting(acc, m) ==
  IF m.brightness >= 30 /\ m.brightness <= 85 THEN Push(acc, 20, "", "")
  ELSE IF m.brightness < 30
       THEN Push(acc, 0, "Too dark", "Move to a brighter area or turn on more lights")
       ELSE Push(acc, 0, "Too bright", "Avoid direct sunlight or harsh lighting")

\* ScoreSharpness without the recommendations.push of its else branch
ScoreSharpnessNoAdvice(acc, m) ==
  IF m.sharpness >= 40 THEN Push(acc, 20, "", "")
  ELSE Push(acc, 0, "Image appears blurry", "")

ScoreSharpness(acc, m) ==
  IF m.sharpness >= 40 THEN Push(acc, 20, "", "")
  ELSE Push(acc, 0, "Image appears blurry", "Hold the camera steady and ensure good focus")

\* ScoreFace giving the full award from 0.8 on instead of above 0.8
ScoreFaceFrom800(acc, m) ==
  IF m.faceDetected /\ m.faceConfidence >= 800 THEN Push(acc, 25, "", "")
  ELSE IF m.faceDetected /\ m.faceConfidence > 500
       THEN Push(acc, 15, "Face detection confidence low",
                 "Position your face more clearly in the frame")
       ELSE Push(acc, 0, "No face detected", "Position your face clearly within the frame")

\* ScoreFace with 0.9 in place of 0.8 as the bound of the full award
ScoreFaceAbove900(acc, m) ==
  IF m.faceDetected /\ m.faceConfidence > 900 THEN Push(acc, 25, "", "")
  ELSE IF m.faceDetected /\ m.faceConfidence > 500
       THEN Push(acc, 15, "Face detection confidence low",
                 "Position your face more clearly in the frame")
       ELSE Push(acc, 0, "No face detected", "Position your face clearly within the frame")

ScoreFace(acc, m) ==
  IF m.faceDetected /\ m.faceConfidence > 800 THEN Push(acc, 25, "", "")
  ELSE IF m.faceDetected /\ m.faceConfidence > 500
       THEN Push(acc, 15, "Face detection confidence low",
                 "Position your face more clearly in the frame")
       ELSE Push(acc, 0, "No face detected", "Position your face clearly within the frame")

\* ScoreFaceSize with both bounds of the good range exclusive
ScoreFaceSizeExclusive(acc, m) ==
  IF m.faceSize > 800 /\ m.faceSize < 2500 THEN Push(acc, 15, "", "")
  ELSE IF m.faceSize <= 800
       THEN Push(acc, 0, "Face too small", "Move closer to the camera")
       ELSE Push(acc, 0, "Face too large", "Move slightly away from the camera")

ScoreFaceSize(acc, m) ==
  IF m.faceSize >= 800 /\ m.faceSize <= 2500 THEN Push(acc, 15, "", "")
  ELSE IF m.faceSize < 800
       THEN Push(acc, 0, "Face too small", "Move closer to the camera")
       ELSE IF m.faceSize > 2500
            THEN Push(acc, 0, "Face too large", "Move slightly away from the camera")
            ELSE acc

ScoreHeadPose(acc, m) ==
  LET headPoseOk == /\ Abs(m.headPose.yaw) < 15
                    /\ Abs(m.headPose.pitch) < 15
                    /\ Abs(m.headPose.roll) < 10
  IN IF headPoseOk THEN Push(acc, 10, "", "")
     ELSE Push(acc, 0, "Head pose not optimal",
               "Look directly at the camera and keep your head straight")

\* ScoreEyes without the issues.push of its else branch
ScoreEyesSilent(acc, m) ==
  IF m.eyesOpen THEN Push(acc, 5, "", "")
  ELSE Push(acc, 0, "", "Keep your eyes open and look at the camera")

ScoreEyes(acc, m) ==
  IF m.eyesOpen THEN Push(acc, 5, "", "")
  ELSE Push(acc, 0, "Eyes appear closed", "Keep your eyes open and look at the camera")

ScorePosition(acc, m) ==
  LET centerX == Abs(m.facePosition.x - 100)
      centerY == Abs(m.facePosition.y - 100)
  IN IF centerX < 30 /\ centerY < 30 THEN Push(acc, 5, "", "")
     ELSE Push(acc, 0, "Face not centered", "Center your face in the frame")

\* the locals as a call that finds them at last would keep them
LocalsKept(last) == last

\* let score = 0, issues = [], recommendations = []: every call declares its
\* own, whatever the call before left behind
Locals(last) == [score |-> 0, issues |-> << >>, recommendations |-> << >>]

\* no call has run yet
Untouched == [score |-> 0, issues |-> << >>, recommendations |-> << >>]

\* the seven blocks of the rubric, from the locals a0
Rubric(a0, m) ==
  LET a1 == ScoreLighting(a0, m)
      a2 == ScoreSharpness(a1, m)
      a3 == ScoreFace(a2, m)
      a4 == ScoreFaceSize(a3, m)
      a5 == ScoreHeadPose(a4, m)
      a6 == ScoreEyes(a5, m)
  IN ScorePosition(a6, m)

calculateAPIQualityScore(m) == Rubric(Locals(Untouched), m)

(***************************************************************************)
(* Detection provider.  A frame is the result of the pixel loops of        *)
(* analyzeImageData, calculateSharpness and detectFaceRegion over one      *)
(* sampled image: its raw brightness, sharpness and contrast, the number   *)
(* of sampled and of skin-classified window pixels, and the extent of the  *)
(* skin pixels.  decodes says whether the image of the data URL loads      *)
(* (img.onload with pixel data) or not (img.onerror, or no 2d context).    *)
(***************************************************************************)
FallbackBox == [x |-> 40, y |-> 40, width |-> 20, height |-> 20]

\* landmarks in thousandths: bbox.x + bbox.width * 0.3 and so on
Landmarks(bbox) ==
  [left_eye  |-> [x |-> bbox.x * 10 + bbox.width * 3, y |-> bbox.y * 10 + bbox.height * 4],
   right_eye |-> [x |-> bbox.x * 10 + bbox.width * 7, y |-> bbox.y * 10 + bbox.height * 4],
   nose      |-> [x |-> bbox.x * 10 + bbox.width * 5, y |-> bbox.y * 10 + bbox.height * 6],
   mouth     |-> [x |-> bbox.x * 10 + bbox.width * 5, y |-> bbox.y * 10 + bbox.height * 8]]

\* detectFaceRegion adding the whole skin ratio to 0.6 instead of 0.4 of it
detectFaceRegionUnscaled(f) ==
  LET skinRatio == IF f.totalPixels > 0 THEN (f.skinPixels * 1000) \div f.totalPixels ELSE 0
      detected == skinRatio > 150
      bbox == IF detected
              THEN [x |-> (f.minX * 100) \div f.width,
                    y |-> (f.minY * 100) \div f.height,
                    width |-> ((f.maxX - f.minX) * 100) \div f.width,
                    height |-> ((f.maxY - f.minY) * 100) \div f.height]
              ELSE FallbackBox
  IN [detected |-> detected,
      confidence |-> IF detected THEN 600 + skinRatio ELSE skinRatio,
      boundingBox |-> bbox,
      landmarks |-> Landmarks(bbox)]

\* detectFaceRegion reporting a face from a skin ratio of 0.15 on
detectFaceRegionInclusive(f) ==
  LET skinRatio == IF f.totalPixels > 0 THEN (f.skinPixels * 1000) \div f.totalPixels ELSE 0
      detected == skinRatio >= 150
      bbox == IF detected
              THEN [x |-> (f.minX * 100) \div f.width,
                    y |-> (f.minY * 100) \div f.height,
                    width |-> ((f.maxX - f.minX) * 100) \div f.width,
                    height |-> ((f.maxY - f.minY) * 100) \div f.height]
              ELSE FallbackBox
  IN [detected |-> detected,
      confidence |-> IF detected THEN 600 + (skinRatio * 4) \div 10 ELSE skinRatio,
      boundingBox |-> bbox,
      landmarks |-> Landmarks(bbox)]

detectFaceRegion(f) ==
  LET skinRatio == IF f.totalPixels > 0 THEN (f.skinPixels * 1000) \div f.totalPixels ELSE 0
      detected == skinRatio > 150
      bbox == IF detected
              THEN [x |-> (f.minX * 100) \div f.width,
                    y |-> (f.minY * 100) \div f.height,
                    width |-> ((f.maxX - f.minX) * 100) \div f.width,
                    height |-> ((f.maxY - f.minY) * 100) \div f.height]
              ELSE FallbackBox
  IN [detected |-> detected,
      confidence |-> IF detected THEN 600 + (skinRatio * 4) \div 10 ELSE skinRatio,
      boundingBox |-> bbox,
      landmarks |-> Landmarks(bbox)]

\* the quality scores passed on as measured, without the clamp
ClampNone(v) == v

Clamp100(v) == Max2(0, Min2(100, v))

\* rnd holds the values the Math.random() draws of one call produce
analyzeImageData(f, rnd) ==
  LET faceData == detectFaceRegion(f)
  IN [face_detected |-> faceData.detected,
      confidence |-> faceData.confidence,
      bounding_box |-> faceData.boundingBox,
      landmarks |-> faceData.landmarks,
      attributes |-> [eyes_open |-> faceData.detected /\ rnd.eyes,
                      head_pose |-> [yaw |-> rnd.yaw, pitch |-> rnd.pitch, roll |-> rnd.roll],
                      emotion_confidence |-> rnd.emotion],
      quality_scores |-> [brightness |-> Clamp100(f.brightness),
                          sharpness |-> Clamp100(f.sharpness),
                          contrast |-> Clamp100(f.contrast)]]

generateMockAPIResponse(faceDetected, rnd) ==
  [face_detected |-> faceDetected,
   confidence |-> IF faceDetected THEN 850 + (rnd.conf * 150) \div 1000
                  ELSE (rnd.conf * 300) \div 1000,
   bounding_box |-> [x |-> 30 + rnd.bx, y |-> 25 + rnd.by,
                     width |-> 20 + rnd.bw, height |-> 30 + rnd.bh],
   landmarks |-> [left_eye |-> [x |-> 400, y |-> 400], right_eye |-> [x |-> 600, y |-> 400],
                  nose |-> [x |-> 500, y |-> 550], mouth |-> [x |-> 500, y |-> 700]],
   attributes |-> [eyes_open |-> rnd.eyes,
                   head_pose |-> [yaw |-> rnd.yaw, pitch |-> rnd.pitch, roll |-> rnd.roll],
                   emotion_confidence |-> rnd.emotion],
   quality_scores |-> [brightness |-> 40 + rnd.bright,
                       sharpness |-> 50 + rnd.sharp,
                       contrast |-> 30 + rnd.contrast]]

callFaceDetectionAPI(f, rnd) ==
  IF f.decodes THEN analyzeImageData(f, rnd) ELSE generateMockAPIResponse(FALSE, rnd)

analyzeImageWithAPI(apiResponse) ==
  LET faceSize == apiResponse.bounding_box.width * apiResponse.bounding_box.height
      facePosition == [x |-> 2 * apiResponse.bounding_box.x + apiResponse.bounding_box.width,
                       y |-> 2 * apiResponse.bounding_box.y + apiResponse.bounding_box.height]
      enhancedAnalysis ==
        calculateAPIQualityScore(
          [brightness |-> apiResponse.quality_scores.brightness,
           sharpness |-> apiResponse.quality_scores.sharpness,
           contrast |-> apiResponse.quality_scores.contrast,
           faceDetected |-> apiResponse.face_detected,
           faceConfidence |-> apiResponse.confidence,
           faceSize |-> faceSize,
           facePosition |-> facePosition,
           eyesOpen |-> apiResponse.attributes.eyes_open,
           headPose |-> apiResponse.attributes.head_pose])
  IN [brightness |-> apiResponse.quality_scores.brightness,
      contrast |-> apiResponse.quality_scores.contrast,
      sharpness |-> apiResponse.quality_scores.sharpness,
      faceDetected |-> apiResponse.face_detected,
      faceConfidence |-> apiResponse.confidence,
      faceSize |-> faceSize,
      facePosition |-> facePosition,
      eyesOpen |-> apiResponse.attributes.eyes_open,
      headPose |-> apiResponse.attributes.head_pose,
      emotionConfidence |-> apiResponse.attributes.emotion_confidence,
      overallScore |-> enhancedAnalysis.score,
      issues |-> enhancedAnalysis.issues,
      recommendations |-> enhancedAnalysis.recommendations,
      apiPowered |-> TRUE]

\* GateOpen with the threshold 70 in place of 50
GateOpenAt70(analysis) == analysis.overallScore >= 70

\* setCanCapture(analysis.overallScore >= 50)
GateOpen(analysis) == analysis.overallScore >= 50

(***************************************************************************)
(* Bounds of the model.                                                    *)
(***************************************************************************)
\* media streams getUserMedia may hand out in one run
MaxStreams == 3

\* getUserMedia calls that may be pending at once
MaxPending == 3

\* analyze calls (ticks that sample a frame) in one run
MaxCalls == 2

\* confirmSelfie calls in one run
MaxConfirms == 1

(***************************************************************************)
(* Inputs of the component model: the frames the video can show and the    *)
(* values the Math.random() draws of one provider call can produce.        *)
(***************************************************************************)
Frame(enc, dec, b, s, c, skin, total, x0, x1, y0, y1) ==
  [encodes |-> enc, decodes |-> dec, width |-> 100, height |-> 100,
   brightness |-> b, sharpness |-> s, contrast |-> c,
   skinPixels |-> skin, totalPixels |-> total,
   minX |-> x0, maxX |-> x1, minY |-> y0, maxY |-> y1]

\* a well lit face filling 16% of the frame
FaceFrame == Frame(TRUE, TRUE, 50, 120, 70, 60, 100, 30, 70, 30, 70)

\* a dark frame without skin pixels (minX..maxY keep their initial values)
DarkFrame == Frame(TRUE, TRUE, 10, 60, 40, 0, 100, 100, 0, 100, 0)

\* a well lit frame with too few skin pixels for a detection
EmptyFrame == Frame(TRUE, TRUE, 50, 60, 40, 10, 100, 45, 55, 45, 55)

\* a frame whose data URL does not load as an image (img.onerror)
BrokenFrame == Frame(TRUE, FALSE, 0, 0, 0, 0, 0, 0, 0, 0, 0)

\* a frame for which canvas.toDataURL throws
UnencodableFrame == Frame(FALSE, FALSE, 0, 0, 0, 0, 0, 0, 0, 0, 0)

\* the frames the preview shows in the component model
Frames == {FaceFrame, DarkFrame, BrokenFrame, UnencodableFrame}

Draw(eyes, yaw, conf, bw) ==
  [eyes |-> eyes, yaw |-> yaw, pitch |-> 0, roll |-> 0, emotion |-> 900,
   conf |-> conf, bx |-> 10, by |-> 10, bw |-> bw, bh |-> 0,
   bright |-> 20, sharp |-> 20, contrast |-> 20]

\* yaw = (Math.random() - 0.5) * 30 lies in [-15, 15); conf scales Math.random()
Draws == {Draw(TRUE, 0, 0, 0), Draw(FALSE, -15, 500, 9)}

\* the draws tried for a frame: both for the frame that shows a face, one
\* for the frames that score the same side of the gate with either
DrawsFor(f) == IF f = FaceFrame THEN Draws ELSE {Draw(TRUE, 0, 0, 0)}

NoAnalysis == [overallScore |-> -1]

\* ids of the video elements a run can create: the first one, and one per
\* retake and per cleared camera error
Elements == 1..(2 * MaxStreams + 1)

(***************************************************************************)
(* State of the component.                                                 *)
(***************************************************************************)
VARIABLES
  mounted,            \* the component is mounted
  stream,             \* useState stream: a stream id, 0 for null
  capturedImage,      \* useState capturedImage: a still id, 0 for null
  cameraError,        \* useState cameraError is not null
  qualityAnalysis,    \* useState qualityAnalysis, NoAnalysis for null
  isAnalyzing,        \* useState isAnalyzing
  canCapture,         \* useState canCapture: the capture gate
  videoEl,            \* videoRef.current: a video element id, 0 for null
  elCount,            \* video elements created so far
  srcObject,          \* video element -> the stream assigned to its srcObject
  loaded,             \* video elements with readyState HAVE_ENOUGH_DATA
  listenerEl,         \* element holding the stream effect's loadeddata listener, 0 for none
  pendingCamera,      \* getUserMedia calls not yet settled
  acquired,           \* streams handed out by getUserMedia so far
  stoppedStreams,     \* streams whose tracks were stopped
  startTimeouts,      \* pending setTimeout(startRealTimeAnalysis, 500)
  intervals,          \* active setInterval timers: [id, el]
  timerCount,         \* setInterval timers created so far
  analysisIntervalRef,\* analysisIntervalRef.current: a timer id, 0 for null
  inflight,           \* pending analyzeImageWithAPI calls: [id, timer, frame]
  calls,              \* analyze calls started so far
  captures,           \* stills taken so far
  isProcessing,       \* useState isProcessing
  confirming,         \* confirmSelfie calls in their 1000 ms wait: [id, still]
  confirms,           \* confirmSelfie calls started so far
  delivered,          \* stills passed to onSelfieCapture so far
  metrics,            \* scorer run: the argument of calculateAPIQualityScore
  scored,             \* scorer run: its return value, NotScored before the call
  rescored,           \* scorer run: the return value of a second call on metrics
  sample,             \* provider run: the frame and the draws of one call
  response,           \* provider run: the value callFaceDetectionAPI resolves to
  extractedData,      \* verification run: verificationData.extractedData
  faceMatch,          \* verification run: the face match drawn, in hundredths of a percent
  verificationResults,\* verification run: the results handleSelfieCapture stores
  currentStep,        \* Index: useState currentStep
  documentImage,      \* Index: verificationData.documentImage, a file id, 0 for none
  selfieImage,        \* Index: verificationData.selfieImage is set
  round,              \* Index: verifications started so far (mounts of the step components)
  uploadedImage,      \* DocumentUpload: useState uploadedImage, a file id, 0 for null
  docIsProcessing,    \* DocumentUpload: useState isProcessing
  lastFile,           \* DocumentUpload: the file of the last change event of the input
  selections,         \* DocumentUpload: change events of the file input so far
  reading,            \* DocumentUpload: FileReader loads not yet done: [file, round]
  processing,         \* DocumentUpload: processDocument calls in their 2000 ms wait: [image]
  selfieIsProcessing, \* SelfieCapture on the page: useState isProcessing
  selfieConfirming,   \* SelfieCapture on the page: confirmSelfie calls in their wait
  selfieConfirms,     \* SelfieCapture on the page: confirmSelfie calls started so far
  verifying           \* Index: pending 3000 ms callbacks of handleSelfieCapture

reactVars == <<mounted, stream, capturedImage, cameraError, qualityAnalysis,
               isAnalyzing, canCapture>>

domVars == <<videoEl, elCount, srcObject, loaded, listenerEl>>

cameraVars == <<pendingCamera, acquired, stoppedStreams>>

loopVars == <<startTimeouts, intervals, timerCount, analysisIntervalRef, inflight, calls>>

confirmVars == <<isProcessing, confirming, confirms, delivered>>

verifierVars == <<extractedData, faceMatch, verificationResults>>

wizardVars == <<currentStep, documentImage, selfieImage, round, uploadedImage,
                docIsProcessing, lastFile, selections, reading, processing,
                selfieIsProcessing, selfieConfirming, selfieConfirms, verifying>>

pureVars == <<metrics, scored, rescored, sample, response, verifierVars, wizardVars>>

vars == <<reactVars, domVars, cameraVars, loopVars, captures, confirmVars, pureVars>>

NoMetrics == [brightness |-> -1]

\* verificationData = {}: no extractedData and no verificationResults
NoData == [age |-> [present |-> FALSE, value |-> 0]]

NoResults == [faceMatch |-> -1]

\* no verification is being computed
VerifierIdle ==
  /\ extractedData = NoData
  /\ faceMatch = 0
  /\ verificationResults = NoResults

\* no file has been selected
NoFile == [id |-> 0]

\* the page as it is first rendered: the intro step, nothing pending
WizardIdle ==
  /\ currentStep = "intro"
  /\ documentImage = 0
  /\ selfieImage = FALSE
  /\ round = 0
  /\ uploadedImage = 0
  /\ docIsProcessing = FALSE
  /\ lastFile = NoFile
  /\ selections = 0
  /\ reading = {}
  /\ processing = {}
  /\ selfieIsProcessing = FALSE
  /\ selfieConfirming = {}
  /\ selfieConfirms = 0
  /\ verifying = {}

NotScored == [score |-> -1]

NoSample == [frame |-> [encodes |-> FALSE], rnd |-> [conf |-> -1]]

NoResponse == [confidence |-> -1]

ComponentInit ==
  /\ mounted = TRUE
  /\ stream = 0
  /\ capturedImage = 0
  /\ cameraError = FALSE
  /\ qualityAnalysis = NoAnalysis
  /\ isAnalyzing = FALSE
  /\ canCapture = FALSE
  /\ videoEl = 1
  /\ elCount = 1
  /\ srcObject = [e \in Elements |-> 0]
  /\ loaded = {}
  /\ listenerEl = 0
  /\ pendingCamera = 1
  /\ acquired = 0
  /\ stoppedStreams = {}
  /\ startTimeouts = 0
  /\ intervals = {}
  /\ timerCount = 0
  /\ analysisIntervalRef = 0
  /\ inflight = {}
  /\ calls = 0
  /\ captures = 0
  /\ isProcessing = FALSE
  /\ confirming = {}
  /\ confirms = 0
  /\ delivered = {}

Init ==
  /\ ComponentInit
  /\ WizardIdle
  /\ metrics = NoMetrics
  /\ scored = NotScored
  /\ rescored = NotScored
  /\ sample = NoSample
  /\ response = NoResponse
  /\ VerifierIdle

(***************************************************************************)
(* Helpers shared by the handlers.                                         *)
(***************************************************************************)
\* stopRealTimeAnalysis: clearInterval(analysisIntervalRef.current), then null
StoppedIntervals == {iv \in intervals : iv.id # analysisIntervalRef}

\* the render after a handler: the <video> is shown when there is neither a
\* camera error nor a captured image; showing it again creates a new element
RenderedVideo(err, img) ==
  IF err \/ img # 0 THEN 0
  ELSE IF videoEl # 0 THEN videoEl ELSE elCount + 1

\* the effect on [stream]: its cleanup exists when the last run attached the
\* listener; the new run attaches it when stream and videoRef.current are set
EffectListener(newStream, newVideo) ==
  IF newStream # 0 /\ newVideo # 0 THEN newVideo ELSE 0

(***************************************************************************)
(* startCamera: the pending getUserMedia call settles.                     *)
(***************************************************************************)
CameraGranted ==
  /\ pendingCamera > 0
  /\ acquired < MaxStreams
  /\ pendingCamera' = pendingCamera - 1
  /\ acquired' = acquired + 1
  /\ UNCHANGED <<stoppedStreams, captures, mounted, capturedImage, qualityAnalysis,
                 isAnalyzing, canCapture, startTimeouts, timerCount, inflight, calls>>
  /\ IF mounted
     THEN LET newVideo == RenderedVideo(FALSE, capturedImage)
          IN /\ stream' = acquired + 1
             /\ cameraError' = FALSE
             \* videoRef.current.srcObject = mediaStream, before the render
             /\ srcObject' = IF videoEl # 0
                             THEN [srcObject EXCEPT ![videoEl] = acquired + 1]
                             ELSE srcObject
             /\ loaded' = loaded \ {videoEl}
             /\ videoEl' = newVideo
             /\ elCount' = IF newVideo > elCount THEN newVideo ELSE elCount
             \* the stream changed: cleanup of the last effect run, then the new run
             /\ intervals' = IF listenerEl # 0 THEN StoppedIntervals ELSE intervals
             /\ analysisIntervalRef' = IF listenerEl # 0 THEN 0 ELSE analysisIntervalRef
             /\ listenerEl' = EffectListener(acquired + 1, newVideo)
     ELSE UNCHANGED <<stream, cameraError, domVars, intervals, analysisIntervalRef>>
  /\ UNCHANGED confirmVars
  /\ UNCHANGED pureVars

CameraDenied ==
  /\ pendingCamera > 0
  /\ pendingCamera' = pendingCamera - 1
  /\ UNCHANGED <<acquired, stoppedStreams, captures, mounted, stream, capturedImage,
                 qualityAnalysis, isAnalyzing, canCapture, elCount, srcObject, loaded,
                 listenerEl, loopVars>>
  /\ IF mounted
     THEN cameraError' = TRUE /\ videoEl' = 0
     ELSE UNCHANGED <<cameraError, videoEl>>
  /\ UNCHANGED confirmVars
  /\ UNCHANGED pureVars

\* the Retry Camera Access button of the error view
RetryCamera ==
  /\ mounted /\ cameraError
  /\ pendingCamera < MaxPending
  /\ acquired + pendingCamera < MaxStreams
  /\ pendingCamera' = pendingCamera + 1
  /\ UNCHANGED <<acquired, stoppedStreams, captures, reactVars, domVars, loopVars>>
  /\ UNCHANGED confirmVars
  /\ UNCHANGED pureVars

(***************************************************************************)
(* The analysis loop.                                                      *)
(***************************************************************************)
\* a video element with a live stream fires loadeddata; handleLoadedData
\* schedules startRealTimeAnalysis 500 ms later
LoadedData(el) ==
  /\ srcObject[el] # 0
  /\ srcObject[el] \notin stoppedStreams
  /\ el \notin loaded
  /\ loaded' = loaded \cup {el}
  /\ startTimeouts' = IF listenerEl = el THEN startTimeouts + 1 ELSE startTimeouts
  /\ UNCHANGED <<reactVars, videoEl, elCount, srcObject, listenerEl, cameraVars,
                 intervals, timerCount, analysisIntervalRef, inflight, calls, captures>>
  /\ UNCHANGED confirmVars
  /\ UNCHANGED pureVars

\* the 500 ms timeout fires: startRealTimeAnalysis
startRealTimeAnalysis ==
  /\ startTimeouts > 0
  /\ startTimeouts' = startTimeouts - 1
  /\ UNCHANGED <<reactVars, domVars, cameraVars, inflight, calls, captures>>
  /\ IF videoEl # 0
     THEN /\ timerCount' = timerCount + 1
          /\ intervals' = intervals \cup {[id |-> timerCount + 1, el |-> videoEl]}
          /\ analysisIntervalRef' = timerCount + 1
     ELSE UNCHANGED <<timerCount, intervals, analysisIntervalRef>>
  /\ UNCHANGED confirmVars
  /\ UNCHANGED pureVars

\* a tick of an active interval: analyzeFrame up to its await
TickStarts(iv, f) ==
  /\ iv \in intervals
  /\ iv.el \in loaded
  /\ calls < MaxCalls
  /\ calls' = calls + 1
  /\ inflight' = inflight \cup {[id |-> calls + 1, timer |-> iv.id, frame |-> f]}
  /\ isAnalyzing' = IF mounted THEN TRUE ELSE isAnalyzing
  /\ UNCHANGED <<mounted, stream, capturedImage, cameraError, qualityAnalysis, canCapture,
                 domVars, cameraVars, startTimeouts, intervals, timerCount,
                 analysisIntervalRef, captures>>
  /\ UNCHANGED confirmVars
  /\ UNCHANGED pureVars

\* what analyzeImageWithAPI returns for each frame that encodes and each
\* outcome of the random draws of the call
AnalysisOf ==
  [f \in {g \in Frames : g.encodes} |->
     [rnd \in DrawsFor(f) |-> analyzeImageWithAPI(callFaceDetectionAPI(f, rnd))]]

\* the state the continuation of analyzeFrame writes for call c with draws rnd
Committed(c, rnd) ==
  IF c.frame.encodes
  THEN LET analysis == AnalysisOf[c.frame][rnd]
       IN [qualityAnalysis |-> analysis, canCapture |-> GateOpen(analysis)]
  ELSE [qualityAnalysis |-> qualityAnalysis, canCapture |-> canCapture]

\* the await of a call settles: analyzeFrame after its await
TickCompletes(c, rnd) ==
  /\ c \in inflight
  /\ inflight' = inflight \ {c}
  /\ UNCHANGED <<mounted, stream, capturedImage, cameraError, domVars, cameraVars,
                 startTimeouts, intervals, timerCount, analysisIntervalRef, calls, captures>>
  /\ IF mounted
     THEN /\ qualityAnalysis' = Committed(c, rnd).qualityAnalysis
          /\ canCapture' = Committed(c, rnd).canCapture
          /\ isAnalyzing' = FALSE
     ELSE UNCHANGED <<qualityAnalysis, canCapture, isAnalyzing>>
  /\ UNCHANGED confirmVars
  /\ UNCHANGED pureVars

(***************************************************************************)
(* The buttons, and unmount.                                               *)
(***************************************************************************)
\* capturePhoto behind a button that ignores the gate
capturePhotoUngated ==
  /\ mounted /\ capturedImage = 0
  /\ stream # 0 /\ ~cameraError
  /\ videoEl # 0
  /\ ~(qualityAnalysis # NoAnalysis /\ qualityAnalysis.overallScore < 50)
  /\ captures' = captures + 1
  /\ capturedImage' = captures + 1
  /\ intervals' = StoppedIntervals
  /\ analysisIntervalRef' = 0
  /\ stoppedStreams' = stoppedStreams \cup {stream}
  /\ stream' = 0
  /\ videoEl' = 0
  /\ listenerEl' = 0
  /\ UNCHANGED <<mounted, cameraError, qualityAnalysis, isAnalyzing, canCapture, elCount,
                 srcObject, loaded, pendingCamera, acquired, startTimeouts, timerCount,
                 inflight, calls>>
  /\ UNCHANGED confirmVars
  /\ UNCHANGED pureVars

\* the capture button is enabled, and capturePhoto passes its quality check
capturePhoto ==
  /\ mounted /\ capturedImage = 0
  /\ stream # 0 /\ ~cameraError /\ canCapture
  /\ videoEl # 0
  /\ ~(qualityAnalysis # NoAnalysis /\ qualityAnalysis.overallScore < 50)
  /\ captures' = captures + 1
  /\ capturedImage' = captures + 1
  /\ intervals' = StoppedIntervals
  /\ analysisIntervalRef' = 0
  /\ stoppedStreams' = stoppedStreams \cup {stream}
  /\ stream' = 0
  /\ videoEl' = 0
  /\ listenerEl' = 0
  /\ UNCHANGED <<mounted, cameraError, qualityAnalysis, isAnalyzing, canCapture, elCount,
                 srcObject, loaded, pendingCamera, acquired, startTimeouts, timerCount,
                 inflight, calls>>
  /\ UNCHANGED confirmVars
  /\ UNCHANGED pureVars

retakePhoto ==
  /\ mounted /\ capturedImage # 0
  /\ pendingCamera < MaxPending
  /\ acquired + pendingCamera < MaxStreams
  /\ capturedImage' = 0
  /\ qualityAnalysis' = NoAnalysis
  /\ canCapture' = FALSE
  /\ pendingCamera' = pendingCamera + 1
  /\ videoEl' = RenderedVideo(cameraError, 0)
  /\ elCount' = IF videoEl' > elCount THEN videoEl' ELSE elCount
  /\ UNCHANGED <<mounted, stream, cameraError, isAnalyzing, srcObject, loaded, listenerEl,
                 acquired, stoppedStreams, loopVars, captures>>
  /\ UNCHANGED confirmVars
  /\ UNCHANGED pureVars

\* the Confirm button: confirmSelfie up to its await; the continuation keeps
\* the capturedImage of the render in which the button was clicked
confirmSelfie ==
  /\ mounted /\ capturedImage # 0
  /\ ~isProcessing
  /\ confirms < MaxConfirms
  /\ confirms' = confirms + 1
  /\ confirming' = confirming \cup {[id |-> confirms + 1, still |-> capturedImage]}
  /\ isProcessing' = TRUE
  /\ UNCHANGED <<delivered, reactVars, domVars, cameraVars, loopVars, captures>>
  /\ UNCHANGED pureVars

\* the 1000 ms wait of a confirmSelfie call is over: onSelfieCapture, finally
ConfirmCompletes(k) ==
  /\ k \in confirming
  /\ confirming' = confirming \ {k}
  /\ delivered' = delivered \cup {k.still}
  /\ isProcessing' = IF mounted THEN FALSE ELSE isProcessing
  /\ UNCHANGED <<confirms, reactVars, domVars, cameraVars, loopVars, captures>>
  /\ UNCHANGED pureVars

\* the parent removes the component: the cleanups of both effects run; the
\* cleanup of the mount effect reads the stream of the first render, null
Unmount ==
  /\ mounted
  /\ mounted' = FALSE
  /\ videoEl' = 0
  /\ listenerEl' = 0
  /\ intervals' = StoppedIntervals
  /\ analysisIntervalRef' = 0
  /\ UNCHANGED <<stream, capturedImage, cameraError, qualityAnalysis, isAnalyzing,
                 canCapture, elCount, srcObject, loaded, cameraVars, startTimeouts,
                 timerCount, inflight, calls, captures>>
  /\ UNCHANGED confirmVars
  /\ UNCHANGED pureVars

Next ==
  \/ CameraGranted
  \/ CameraDenied
  \/ RetryCamera
  \/ \E el \in Elements : LoadedData(el)
  \/ startRealTimeAnalysis
  \/ \E iv \in intervals, f \in Frames : TickStarts(iv, f)
  \/ \E c \in inflight : \E rnd \in DrawsFor(c.frame) : TickCompletes(c, rnd)
  \/ capturePhoto
  \/ retakePhoto
  \/ confirmSelfie
  \/ \E k \in confirming : ConfirmCompletes(k)
  \/ Unmount

Spec == Init /\ [][Next]_vars

\* The component with what the browser guarantees of the steps it schedules:
\* a getUserMedia promise settles, a video element given a live stream fires
\* loadeddata, a timeout and an interval that are not cleared fire, and the
\* promise of an analyze call settles.  The user's steps are not forced.
FairSpec ==
  /\ Spec
  /\ WF_vars(CameraGranted \/ CameraDenied)
  /\ \A el \in Elements : WF_vars(LoadedData(el))
  /\ WF_vars(startRealTimeAnalysis)
  /\ WF_vars(\E iv \in intervals, f \in Frames : TickStarts(iv, f))
  /\ WF_vars(\E c \in inflight : \E rnd \in DrawsFor(c.frame) : TickCompletes(c, rnd))
  /\ WF_vars(\E k \in confirming : ConfirmCompletes(k))

componentVars == <<reactVars, domVars, cameraVars, loopVars, captures, confirmVars>>

(***************************************************************************)
(* The scorer alone: calculateAPIQualityScore applied to one argument.     *)
(* The argument sets hold the values on both sides of every threshold of   *)
(* the rubric.                                                             *)
(***************************************************************************)
BrightnessValues == {10, 29, 30, 85, 86}

SharpnessValues == {39, 40, 60}

ConfidenceValues == {500, 501, 800, 801, 900}

FaceSizeValues == {799, 800, 1500, 2500, 2501}

PositionValues ==
  {[x |-> 100, y |-> 100], [x |-> 71, y |-> 129], [x |-> 70, y |-> 100],
   [x |-> 130, y |-> 100], [x |-> 100, y |-> 70], [x |-> 100, y |-> 130]}

HeadPoseValues ==
  {[yaw |-> 0, pitch |-> 0, roll |-> 0], [yaw |-> 14, pitch |-> -14, roll |-> 9],
   [yaw |-> 15, pitch |-> 0, roll |-> 0], [yaw |-> -15, pitch |-> 0, roll |-> 0],
   [yaw |-> 0, pitch |-> 15, roll |-> 0], [yaw |-> 0, pitch |-> 0, roll |-> 10],
   [yaw |-> 0, pitch |-> 0, roll |-> -10]}

ScorerInputs ==
  [brightness : BrightnessValues, sharpness : SharpnessValues, contrast : {40},
   faceDetected : BOOLEAN, faceConfidence : ConfidenceValues,
   faceSize : FaceSizeValues, facePosition : PositionValues,
   eyesOpen : BOOLEAN, headPose : HeadPoseValues]

ScorerInit ==
  /\ ComponentInit
  /\ WizardIdle
  /\ metrics \in ScorerInputs
  /\ scored = NotScored
  /\ rescored = NotScored
  /\ sample = NoSample
  /\ response = NoResponse
  /\ VerifierIdle

ScoreMetrics ==
  /\ scored = NotScored
  /\ scored' = calculateAPIQualityScore(metrics)
  /\ UNCHANGED <<componentVars, metrics, rescored, sample, response, verifierVars, wizardVars>>

\* a second call with the same argument, after the first has returned
ScoreAgain ==
  /\ scored # NotScored
  /\ rescored = NotScored
  /\ rescored' = Rubric(Locals(scored), metrics)
  /\ UNCHANGED <<componentVars, metrics, scored, sample, response, verifierVars, wizardVars>>

ScorerNext == ScoreMetrics \/ ScoreAgain

ScorerSpec == ScorerInit /\ [][ScorerNext]_vars

(***************************************************************************)
(* The provider alone: callFaceDetectionAPI applied to one frame.          *)
(***************************************************************************)
\* a face of 60% skin pixels whose extent is off centre
SideFaceFrame == Frame(TRUE, TRUE, 90, 30, 100, 60, 100, 0, 50, 10, 60)

\* exactly 15% skin pixels: not above the detection threshold
ThresholdFrame == Frame(TRUE, TRUE, 50, 60, 40, 15, 100, 40, 60, 40, 60)

\* 16% skin pixels: just above the detection threshold
DetectedFrame == Frame(TRUE, TRUE, 50, 60, 40, 16, 100, 40, 60, 40, 60)

\* every sampled pixel is a skin pixel
FullSkinFrame == Frame(TRUE, TRUE, 60, 50, 30, 100, 100, 0, 96, 0, 96)

\* a canvas of zero width and height: toDataURL gives "data:,", which the
\* Image of callFaceDetectionAPI cannot decode
ZeroSizeFrame ==
  [Frame(TRUE, FALSE, 0, 0, 0, 0, 0, 0, 0, 0, 0) EXCEPT !.width = 0, !.height = 0]

\* a frame of 6 x 6 pixels: the window loops visit x, y in {1, 4}, four
\* pixels, and the one at (1, 1) is skin coloured
TinyFrame ==
  [Frame(TRUE, TRUE, 50, 60, 40, 1, 4, 1, 1, 1, 1) EXCEPT !.width = 6, !.height = 6]

ProviderFrames ==
  {FaceFrame, DarkFrame, EmptyFrame, BrokenFrame, SideFaceFrame, ThresholdFrame,
   DetectedFrame, FullSkinFrame, ZeroSizeFrame, TinyFrame}

\* Math.random() lies in [0, 1): conf in thousandths of it, the box and score
\* offsets as the products the code adds (0.2 * r is 0..19 hundredths)
ProviderDraws ==
  [eyes : BOOLEAN, yaw : {-15, 0, 14}, pitch : {-10, 9}, roll : {-10, 9},
   emotion : {800, 999}, conf : {0, 500, 999}, bx : {0, 10, 19}, by : {10},
   bw : {0, 9}, bh : {0, 9}, bright : {0, 39}, sharp : {20}, contrast : {20}]

ProviderInit ==
  /\ ComponentInit
  /\ WizardIdle
  /\ metrics = NoMetrics
  /\ scored = NotScored
  /\ rescored = NotScored
  /\ sample \in [frame : ProviderFrames, rnd : ProviderDraws]
  /\ response = NoResponse
  /\ VerifierIdle

CallProvider ==
  /\ response = NoResponse
  /\ response' = callFaceDetectionAPI(sample.frame, sample.rnd)
  /\ UNCHANGED <<componentVars, metrics, scored, rescored, sample, verifierVars, wizardVars>>

ProviderNext == CallProvider

ProviderSpec == ProviderInit /\ [][ProviderNext]_vars

(***************************************************************************)
(* The verification of Index: what the delayed callback of                 *)
(* handleSelfieCapture computes from the extracted data and one draw of    *)
(* the face match.  The face match is in hundredths of a percent.          *)
(***************************************************************************)
\* the condition of "age ? ... : false": undefined and 0 are falsy
Truthy(age) == age.present /\ age.value # 0

\* the age check with the threshold itself excluded
ageVerifiedAbove18(data) ==
  IF Truthy(data.age) THEN data.age.value > 18 ELSE FALSE

ageVerified(data) ==
  IF Truthy(data.age) THEN data.age.value >= 18 ELSE FALSE

\* overallScore dividing by 1.2 whether or not the age check passed
overallScoreOneDivisor(fm, verified) ==
  IF verified THEN (2 * (fm + 2000) + 120) \div 240
  ELSE (2 * fm + 120) \div 240

\* Math.round((faceMatch + (ageVerified ? 20 : 0)) / (ageVerified ? 1.2 : 1.5))
overallScore(fm, verified) ==
  IF verified THEN (2 * (fm + 2000) + 120) \div 240
  ELSE (2 * fm + 150) \div 300

handleSelfieCapture(data, fm) ==
  [faceMatch |-> (fm + 50) \div 100,
   ageVerified |-> ageVerified(data),
   overallScore |-> overallScore(fm, ageVerified(data))]

\* the extracted age: missing, or a number on either side of 18
AgeInputs ==
  {[present |-> FALSE, value |-> 0]} \cup [present : {TRUE}, value : {0, 1, 17, 18, 19, 21}]

\* Math.random() * 40 + 60 lies in [60, 100)
FaceMatchValues == {6000, 6400, 7000, 7777, 8000, 8400, 8401, 9000, 9500, 9999}

VerifierInit ==
  /\ ComponentInit
  /\ WizardIdle
  /\ metrics = NoMetrics
  /\ scored = NotScored
  /\ rescored = NotScored
  /\ sample = NoSample
  /\ response = NoResponse
  /\ extractedData \in [age : AgeInputs]
  /\ faceMatch \in FaceMatchValues
  /\ verificationResults = NoResults

\* the 3000 ms callback of handleSelfieCapture stores the results
Verify ==
  /\ verificationResults = NoResults
  /\ verificationResults' = handleSelfieCapture(extractedData, faceMatch)
  /\ UNCHANGED <<componentVars, metrics, scored, rescored, sample, response,
                 extractedData, faceMatch, wizardVars>>

VerifierNext == Verify

VerifierSpec == VerifierInit /\ [][VerifierNext]_vars

(***************************************************************************)
(* The page: Index with its steps, DocumentUpload, the confirmation of     *)
(* SelfieCapture and VerificationResults.  The still the selfie step       *)
(* confirms is taken as held; its capture is the component model's.        *)
(***************************************************************************)
\* verifications started (Start Verification clicks) in one run
MaxRounds == 2

\* change events of the file input in one run
MaxSelections == 2

\* confirmSelfie calls on the page in one run
MaxDeliveries == 2

\* 5 * 1024 * 1024
MaxFileSize == 5242880

\* the files the user may select: images at and above the size limit, a
\* small image, and a file that is not an image
Files ==
  {[id |-> 1, image |-> TRUE, size |-> MaxFileSize],
   [id |-> 2, image |-> TRUE, size |-> MaxFileSize + 1],
   [id |-> 3, image |-> FALSE, size |-> 1024],
   [id |-> 4, image |-> TRUE, size |-> 1024]}

\* the face matches the delayed callback may draw
DrawnFaceMatches == {6000, 9999}

\* the extractedData that processDocument passes on
ExtractedByOcr == [age |-> [present |-> TRUE, value |-> 21]]

\* VerificationResults renders the results, with its reset button, when
\* both are present, and "Loading results..." otherwise
ResultsShown == verificationResults # NoResults /\ extractedData # NoData

WizardInit ==
  /\ ComponentInit
  /\ metrics = NoMetrics
  /\ scored = NotScored
  /\ rescored = NotScored
  /\ sample = NoSample
  /\ response = NoResponse
  /\ VerifierIdle
  /\ WizardIdle

\* the Start Verification button of the intro step; DocumentUpload mounts
StartVerification ==
  /\ currentStep = "intro"
  /\ round < MaxRounds
  /\ round' = round + 1
  /\ currentStep' = "document"
  /\ uploadedImage' = 0
  /\ docIsProcessing' = FALSE
  /\ UNCHANGED <<documentImage, selfieImage, lastFile, selections, reading, processing,
                 selfieIsProcessing, selfieConfirming, selfieConfirms, verifying>>
  /\ UNCHANGED <<componentVars, metrics, scored, rescored, sample, response, verifierVars>>

\* handleFileUpload accepting a file of any size
handleFileUploadAnySize(file) ==
  /\ currentStep = "document"
  /\ selections < MaxSelections
  /\ selections' = selections + 1
  /\ lastFile' = file
  /\ reading' = IF ~file.image THEN reading
                ELSE reading \cup {[file |-> file.id, round |-> round]}
  /\ UNCHANGED <<currentStep, documentImage, selfieImage, round, uploadedImage,
                 docIsProcessing, processing, selfieIsProcessing, selfieConfirming,
                 selfieConfirms, verifying>>
  /\ UNCHANGED <<componentVars, metrics, scored, rescored, sample, response, verifierVars>>

\* the change event of the file input with one file selected
handleFileUpload(file) ==
  /\ currentStep = "document"
  /\ selections < MaxSelections
  /\ selections' = selections + 1
  /\ lastFile' = file
  /\ reading' = IF ~file.image \/ file.size > MaxFileSize THEN reading
                ELSE reading \cup {[file |-> file.id, round |-> round]}
  /\ UNCHANGED <<currentStep, documentImage, selfieImage, round, uploadedImage,
                 docIsProcessing, processing, selfieIsProcessing, selfieConfirming,
                 selfieConfirms, verifying>>
  /\ UNCHANGED <<componentVars, metrics, scored, rescored, sample, response, verifierVars>>

\* reader.onload: setUploadedImage, on the DocumentUpload that started the read
ReaderLoads(r) ==
  /\ r \in reading
  /\ reading' = reading \ {r}
  /\ uploadedImage' = IF currentStep = "document" /\ r.round = round
                      THEN r.file ELSE uploadedImage
  /\ UNCHANGED <<currentStep, documentImage, selfieImage, round, docIsProcessing,
                 lastFile, selections, processing, selfieIsProcessing, selfieConfirming,
                 selfieConfirms, verifying>>
  /\ UNCHANGED <<componentVars, metrics, scored, rescored, sample, response, verifierVars>>

\* the Process Document button: processDocument up to its await
processDocument ==
  /\ currentStep = "document"
  /\ uploadedImage # 0 /\ ~docIsProcessing
  /\ docIsProcessing' = TRUE
  /\ processing' = processing \cup {[image |-> uploadedImage, round |-> round]}
  /\ UNCHANGED <<currentStep, documentImage, selfieImage, round, uploadedImage, lastFile,
                 selections, reading, selfieIsProcessing, selfieConfirming, selfieConfirms,
                 verifying>>
  /\ UNCHANGED <<componentVars, metrics, scored, rescored, sample, response, verifierVars>>

\* the 2000 ms wait of processDocument is over: onDocumentUpload, that is
\* handleDocumentUpload, then finally; SelfieCapture mounts
ProcessCompletes(d) ==
  /\ d \in processing
  /\ processing' = processing \ {d}
  /\ documentImage' = d.image
  /\ extractedData' = ExtractedByOcr
  /\ currentStep' = "selfie"
  /\ docIsProcessing' = FALSE
  /\ selfieIsProcessing' = IF currentStep = "selfie" THEN selfieIsProcessing ELSE FALSE
  /\ UNCHANGED <<selfieImage, round, uploadedImage, lastFile, selections, reading,
                 selfieConfirming, selfieConfirms, verifying>>
  /\ UNCHANGED <<componentVars, metrics, scored, rescored, sample, response,
                 faceMatch, verificationResults>>

\* the Confirm button of the selfie step: confirmSelfie up to its await; the
\* continuation calls the handleSelfieCapture of the render of the click
ConfirmClicked ==
  /\ currentStep = "selfie"
  /\ ~selfieIsProcessing
  /\ selfieConfirms < MaxDeliveries
  /\ selfieConfirms' = selfieConfirms + 1
  /\ selfieConfirming' = selfieConfirming \cup
       {[id |-> selfieConfirms + 1, round |-> round, data |-> extractedData]}
  /\ selfieIsProcessing' = TRUE
  /\ UNCHANGED <<currentStep, documentImage, selfieImage, round, uploadedImage,
                 docIsProcessing, lastFile, selections, reading, processing, verifying>>
  /\ UNCHANGED <<componentVars, metrics, scored, rescored, sample, response, verifierVars>>

\* the 1000 ms wait of confirmSelfie is over: onSelfieCapture, that is
\* handleSelfieCapture up to its setTimeout, then finally
SelfieDelivered(k) ==
  /\ k \in selfieConfirming
  /\ selfieConfirming' = selfieConfirming \ {k}
  /\ selfieImage' = TRUE
  /\ verifying' = verifying \cup {[id |-> k.id, data |-> k.data]}
  /\ selfieIsProcessing' = IF currentStep = "selfie" /\ k.round = round
                           THEN FALSE ELSE selfieIsProcessing
  /\ UNCHANGED <<currentStep, documentImage, round, uploadedImage, docIsProcessing,
                 lastFile, selections, reading, processing, selfieConfirms>>
  /\ UNCHANGED <<componentVars, metrics, scored, rescored, sample, response, verifierVars>>

\* the 3000 ms callback of handleSelfieCapture: it stores the results and
\* shows the results step
VerificationDone(v, fm) ==
  /\ v \in verifying
  /\ verifying' = verifying \ {v}
  /\ faceMatch' = fm
  /\ verificationResults' = handleSelfieCapture(v.data, fm)
  /\ currentStep' = "results"
  /\ UNCHANGED <<documentImage, selfieImage, round, uploadedImage, docIsProcessing,
                 lastFile, selections, reading, processing, selfieIsProcessing,
                 selfieConfirming, selfieConfirms>>
  /\ UNCHANGED <<componentVars, metrics, scored, rescored, sample, response, extractedData>>

\* the reset button of VerificationResults
resetVerification ==
  /\ currentStep = "results"
  /\ ResultsShown
  /\ currentStep' = "intro"
  /\ documentImage' = 0
  /\ extractedData' = NoData
  /\ selfieImage' = FALSE
  /\ verificationResults' = NoResults
  /\ UNCHANGED <<round, uploadedImage, docIsProcessing, lastFile, selections, reading,
                 processing, selfieIsProcessing, selfieConfirming, selfieConfirms,
                 verifying>>
  /\ UNCHANGED <<componentVars, metrics, scored, rescored, sample, response, faceMatch>>

WizardNext ==
  \/ StartVerification
  \/ \E file \in Files : handleFileUpload(file)
  \/ \E r \in reading : ReaderLoads(r)
  \/ processDocument
  \/ \E d \in processing : ProcessCompletes(d)
  \/ ConfirmClicked
  \/ \E k \in selfieConfirming : SelfieDelivered(k)
  \/ \E v \in verifying, fm \in DrawnFaceMatches : VerificationDone(v, fm)
  \/ resetVerification

WizardSpec == WizardInit /\ [][WizardNext]_vars

(***************************************************************************)
(* Properties.                                                             *)
(***************************************************************************)
ActiveTimers == {iv.id : iv \in intervals}

\* C1: while an analyze call started by an earlier tick is pending, a tick
\* starts no other one: at most one analyze call is outstanding at any time.
OneAnalyzeOutstanding == Cardinality(inflight) <= 1

\* C2: a call that is outstanding when its loop has been stopped (its timer
\* was cleared by capture, retake's stream change or unmount) changes
\* neither the assessment nor the gate when it settles.
LateResultDiscarded ==
  [][\A c \in inflight :
       (c \notin inflight' /\ c.timer \notin ActiveTimers)
         => (qualityAnalysis' = qualityAnalysis /\ canCapture' = canCapture)]_vars

\* C3: in every state the gate is open exactly when an assessment is
\* committed and its overallScore is at least 50; without an assessment
\* (initially, after a retake) it is closed.
GateMatchesAssessment ==
  canCapture <=> (qualityAnalysis # NoAnalysis /\ qualityAnalysis.overallScore >= 50)

\* C3 witness: a second tick committed a score below 50 and the gate is closed
GateClosedByLowScore ==
  /\ calls = 2 /\ inflight = {}
  /\ qualityAnalysis # NoAnalysis /\ qualityAnalysis.overallScore < 50
  /\ ~canCapture

\* C4: with faceDetected = false and brightness and sharpness passing, the
\* score is at most 40 and committing it leaves the gate closed.
NoFaceScoresAtMost40 ==
  (/\ scored # NotScored
   /\ ~metrics.faceDetected
   /\ metrics.brightness >= 30 /\ metrics.brightness <= 85
   /\ metrics.sharpness >= 40)
    => (scored.score <= 40 /\ ~GateOpen([overallScore |-> scored.score]))

\* the points of the rubric of section 4.4, criterion by criterion
AwardLighting(m) == IF m.brightness >= 30 /\ m.brightness <= 85 THEN 20 ELSE 0

AwardSharpness(m) == IF m.sharpness >= 40 THEN 20 ELSE 0

AwardFace(m) ==
  IF m.faceDetected /\ m.faceConfidence > 800 THEN 25
  ELSE IF m.faceDetected /\ m.faceConfidence > 500 THEN 15 ELSE 0

AwardFaceSize(m) == IF m.faceSize >= 800 /\ m.faceSize <= 2500 THEN 15 ELSE 0

AwardHeadPose(m) ==
  IF Abs(m.headPose.yaw) < 15 /\ Abs(m.headPose.pitch) < 15 /\ Abs(m.headPose.roll) < 10
  THEN 10 ELSE 0

AwardEyes(m) == IF m.eyesOpen THEN 5 ELSE 0

AwardCentering(m) ==
  IF Abs(m.facePosition.x - 100) < 30 /\ Abs(m.facePosition.y - 100) < 30 THEN 5 ELSE 0

\* C5: overallScore is the sum of the points the seven criteria award, an
\* integer in [0,100].
ScoreIsSumOfAwards ==
  scored # NotScored =>
    /\ scored.score = AwardLighting(metrics) + AwardSharpness(metrics) + AwardFace(metrics)
                      + AwardFaceSize(metrics) + AwardHeadPose(metrics)
                      + AwardEyes(metrics) + AwardCentering(metrics)
    /\ scored.score \in 0..100

\* C5 witness: an argument that passes every criterion was scored
AllCriteriaAwarded == scored # NotScored /\ scored.score = 100

\* criterion k of the rubric (1 lighting .. 7 centering) does not award its
\* full points
Failed(k, m) ==
  CASE k = 1 -> AwardLighting(m) # 20
    [] k = 2 -> AwardSharpness(m) # 20
    [] k = 3 -> AwardFace(m) # 25
    [] k = 4 -> AwardFaceSize(m) # 15
    [] k = 5 -> AwardHeadPose(m) # 10
    [] k = 6 -> AwardEyes(m) # 5
    [] k = 7 -> AwardCentering(m) # 5

\* the issues that belong to criterion k
IssuesOf(k) ==
  CASE k = 1 -> {"Too dark", "Too bright"}
    [] k = 2 -> {"Image appears blurry"}
    [] k = 3 -> {"Face detection confidence low", "No face detected"}
    [] k = 4 -> {"Face too small", "Face too large"}
    [] k = 5 -> {"Head pose not optimal"}
    [] k = 6 -> {"Eyes appear closed"}
    [] k = 7 -> {"Face not centered"}

\* the recommendation that belongs to an issue
AdviceFor(issue) ==
  CASE issue = "Too dark" -> "Move to a brighter area or turn on more lights"
    [] issue = "Too bright" -> "Avoid direct sunlight or harsh lighting"
    [] issue = "Image appears blurry" -> "Hold the camera steady and ensure good focus"
    [] issue = "Face detection confidence low" -> "Position your face more clearly in the frame"
    [] issue = "No face detected" -> "Position your face clearly within the frame"
    [] issue = "Face too small" -> "Move closer to the camera"
    [] issue = "Face too large" -> "Move slightly away from the camera"
    [] issue = "Head pose not optimal" -> "Look directly at the camera and keep your head straight"
    [] issue = "Eyes appear closed" -> "Keep your eyes open and look at the camera"
    [] issue = "Face not centered" -> "Center your face in the frame"

\* C6: one issue and one recommendation for each failed criterion and none
\* for a passed one, in rubric order; recommendation i belongs to issue i.
IssuesPairedInRubricOrder ==
  scored # NotScored =>
    LET failed == SelectSeq(<<1, 2, 3, 4, 5, 6, 7>>, LAMBDA k : Failed(k, metrics))
    IN /\ Len(scored.issues) = Len(failed)
       /\ Len(scored.recommendations) = Len(scored.issues)
       /\ \A i \in 1..Len(failed) :
            /\ scored.issues[i] \in IssuesOf(failed[i])
            /\ scored.recommendations[i] = AdviceFor(scored.issues[i])

\* C6 witness: an argument that fails every criterion was scored
AllCriteriaFailed == scored # NotScored /\ Len(scored.issues) = 7

ScenarioA ==
  [brightness |-> 10, sharpness |-> 60, contrast |-> 40, faceDetected |-> TRUE,
   faceConfidence |-> 900, faceSize |-> 1500, facePosition |-> [x |-> 100, y |-> 100],
   eyesOpen |-> TRUE, headPose |-> [yaw |-> 0, pitch |-> 0, roll |-> 0]]

\* C7: scenario A scores 80 with the issues exactly <<"Too dark">>, and
\* committing that score opens the gate.
ScenarioAScores80 ==
  (scored # NotScored /\ metrics = ScenarioA)
    => /\ scored.score = 80
       /\ scored.issues = <<"Too dark">>
       /\ GateOpen([overallScore |-> scored.score])

\* C7 witness: scenario A was scored
ScenarioAScored == scored # NotScored /\ metrics = ScenarioA

\* C8: a tick whose analysis fails (the frame does not encode or does not
\* decode) commits nothing: assessment and gate stay as they were.
FailedTickCommitsNothing ==
  [][\A c \in inflight :
       (c \notin inflight' /\ ~c.frame.decodes)
         => (qualityAnalysis' = qualityAnalysis /\ canCapture' = canCapture)]_vars

\* C9: on a decode failure the provider returns faceDetected = false with
\* confidence exactly 0.
FailureReturnsNotDetectedZero ==
  (response # NoResponse /\ ~sample.frame.decodes)
    => (response.face_detected = FALSE /\ response.confidence = 0)

\* C10: every response with faceDetected = false carries the fixed fallback
\* bounding box.
NotDetectedCarriesFallbackBox ==
  (response # NoResponse /\ ~response.face_detected)
    => response.bounding_box = FallbackBox

\* C11: every response the provider returns, computed from the pixels or
\* made up on the fallback path, has a confidence in [0, 1].
ConfidenceInUnitRange ==
  response # NoResponse => (response.confidence >= 0 /\ response.confidence <= 1000)

\* the heuristic path reaches the upper end, the fallback path the lower one
ConfidenceAtUpperEnd ==
  /\ response # NoResponse
  /\ sample.frame.decodes
  /\ response.face_detected
  /\ response.confidence = 1000

\* C12: a still appears only in a step of the manual capture, taken while
\* the gate is open on a committed score of at least 50, a stream that has
\* not been stopped is held and no camera error is set; such a step is not
\* the start or the completion of an analysis tick.
StillOnlyByGatedCapture ==
  [][(capturedImage' # capturedImage /\ capturedImage' # 0)
       => /\ canCapture
          /\ qualityAnalysis # NoAnalysis
          /\ qualityAnalysis.overallScore >= 50
          /\ stream # 0
          /\ stream \notin stoppedStreams
          /\ ~cameraError
          /\ captures' = captures + 1
          /\ inflight' = inflight
          /\ calls' = calls]_vars

\* a still has been taken by the capture action
StillTaken ==
  /\ capturedImage # 0
  /\ captures > 0
  /\ qualityAnalysis # NoAnalysis
  /\ stream = 0

\* the live preview: a stream is held, nothing is frozen, no error is shown
LivePreview == mounted /\ stream # 0 /\ ~cameraError /\ capturedImage = 0

\* an interval that has not been cleared analyses the video shown now
LoopRunning == \E iv \in intervals : iv.el = videoEl

\* a still was taken and has been discarded: only retakePhoto clears it
AfterRetake == mounted /\ captures > 0 /\ capturedImage = 0

\* the step that discards the still closes the gate, clears the assessment
\* and asks for the camera again
RetakeResetsGate ==
  [][(capturedImage # 0 /\ capturedImage' = 0)
       => (~canCapture' /\ qualityAnalysis' = NoAnalysis
           /\ pendingCamera' = pendingCamera + 1)]_vars

\* C13: a retake resets the gate and the assessment and resumes scheduling:
\* from every state after a retake the analysis loop eventually runs on the
\* preview again, unless the camera is refused, the user captures again or
\* the component is unmounted.
RetakeResumesAnalysis ==
  [](AfterRetake => <>(LoopRunning \/ cameraError \/ capturedImage # 0 \/ ~mounted))

\* C17: a camera error is recoverable by retry: once a retry has cleared the
\* error and a stream is held, the engine is back in the live preview with
\* the analysis loop running (unless the user leaves the live preview first).
RecoveredPreviewRunsLoop ==
  [](LivePreview => <>(LoopRunning \/ ~LivePreview))

\* the acquired streams whose tracks have not been stopped
Unstopped == (1..acquired) \ stoppedStreams

\* C14: in every state where a still is held for confirmation the device is
\* released and the tick timer is cancelled: no stream is held, no acquired
\* stream is left running and no interval is left to start a tick.
StillHoldsNoDevice ==
  (mounted /\ capturedImage # 0)
    => (stream = 0 /\ Unstopped = {} /\ intervals = {})

\* C15: after unmount no acquired stream is left running and no interval
\* is left to fire a tick.
UnmountReleasesAll == ~mounted => (Unstopped = {} /\ intervals = {})

\* C16: a provider call that has not settled when the next tick of its own
\* interval fires (1500 ms later, beyond any latency budget within the
\* cadence) is abandoned: when it settles it commits nothing.
OverBudgetCallAbandoned ==
  [][\A c \in inflight :
       (c \notin inflight' /\ \E d \in inflight : d.timer = c.timer /\ d.id > c.id)
         => (qualityAnalysis' = qualityAnalysis /\ canCapture' = canCapture)]_vars

\* C18: at most one acquired stream has not been stopped.
AtMostOneLiveStream == Cardinality(Unstopped) <= 1

\* the points a returned score leaves for one criterion once the points of
\* the six others are taken off
FacePoints ==
  scored.score - (AwardLighting(metrics) + AwardSharpness(metrics) + AwardFaceSize(metrics)
                  + AwardHeadPose(metrics) + AwardEyes(metrics) + AwardCentering(metrics))

LightingPoints ==
  scored.score - (AwardSharpness(metrics) + AwardFace(metrics) + AwardFaceSize(metrics)
                  + AwardHeadPose(metrics) + AwardEyes(metrics) + AwardCentering(metrics))

SharpnessPoints ==
  scored.score - (AwardLighting(metrics) + AwardFace(metrics) + AwardFaceSize(metrics)
                  + AwardHeadPose(metrics) + AwardEyes(metrics) + AwardCentering(metrics))

ReportedIssues == {scored.issues[i] : i \in DOMAIN scored.issues}

LightingAndSharpnessThresholds ==
  scored # NotScored =>
    /\ LightingPoints = IF metrics.brightness >= 30 /\ metrics.brightness <= 85 THEN 20 ELSE 0
    /\ "Too dark" \in ReportedIssues <=> metrics.brightness < 30
    /\ "Too bright" \in ReportedIssues <=> metrics.brightness > 85
    /\ SharpnessPoints = IF metrics.sharpness >= 40 THEN 20 ELSE 0

\* an argument on the inclusive bounds was scored and got both awards
BoundsIncluded ==
  /\ scored # NotScored
  /\ metrics.brightness \in {30, 85}
  /\ metrics.sharpness = 40
  /\ LightingPoints = 20
  /\ SharpnessPoints = 20

\* the points a returned score leaves for each of the last four criteria
FaceSizePoints ==
  scored.score - (AwardLighting(metrics) + AwardSharpness(metrics) + AwardFace(metrics)
                  + AwardHeadPose(metrics) + AwardEyes(metrics) + AwardCentering(metrics))

HeadPosePoints ==
  scored.score - (AwardLighting(metrics) + AwardSharpness(metrics) + AwardFace(metrics)
                  + AwardFaceSize(metrics) + AwardEyes(metrics) + AwardCentering(metrics))

EyesPoints ==
  scored.score - (AwardLighting(metrics) + AwardSharpness(metrics) + AwardFace(metrics)
                  + AwardFaceSize(metrics) + AwardHeadPose(metrics) + AwardCentering(metrics))

CenteringPoints ==
  scored.score - (AwardLighting(metrics) + AwardSharpness(metrics) + AwardFace(metrics)
                  + AwardFaceSize(metrics) + AwardHeadPose(metrics) + AwardEyes(metrics))

\* C21: face size awards 15 points exactly when the face area is within
\* [8%, 25%] of the frame; head pose 10 exactly when |yaw| < 15, |pitch| < 15
\* and |roll| < 10; eyes open 5 exactly when eyesOpen; centering 5 exactly
\* when the centre of the box is less than 0.15 from 0.5 on both axes.
LastFourCriteriaThresholds ==
  scored # NotScored =>
    /\ FaceSizePoints = IF metrics.faceSize >= 800 /\ metrics.faceSize <= 2500 THEN 15 ELSE 0
    /\ HeadPosePoints = IF /\ metrics.headPose.yaw > -15 /\ metrics.headPose.yaw < 15
                           /\ metrics.headPose.pitch > -15 /\ metrics.headPose.pitch < 15
                           /\ metrics.headPose.roll > -10 /\ metrics.headPose.roll < 10
                        THEN 10 ELSE 0
    /\ EyesPoints = IF metrics.eyesOpen THEN 5 ELSE 0
    /\ CenteringPoints = IF /\ metrics.facePosition.x > 70 /\ metrics.facePosition.x < 130
                            /\ metrics.facePosition.y > 70 /\ metrics.facePosition.y < 130
                         THEN 5 ELSE 0

\* an argument on the edge of every one of the four good ranges was scored
\* and got the four awards
LastFourOnTheEdge ==
  /\ scored # NotScored
  /\ metrics.faceSize \in {800, 2500}
  /\ metrics.headPose = [yaw |-> 14, pitch |-> -14, roll |-> 9]
  /\ metrics.eyesOpen
  /\ metrics.facePosition = [x |-> 71, y |-> 129]
  /\ FaceSizePoints = 15 /\ HeadPosePoints = 10 /\ EyesPoints = 5 /\ CenteringPoints = 5

\* C22: the brightness, contrast and sharpness that a response carries to
\* the scorer each lie in [0, 100], whatever the pixel loops measured.
QualityScoresInPercentRange ==
  response # NoResponse =>
    /\ response.quality_scores.brightness \in 0..100
    /\ response.quality_scores.contrast \in 0..100
    /\ response.quality_scores.sharpness \in 0..100

\* a frame whose measured sharpness is above 100 was analysed and clamped
SharpnessClamped ==
  /\ response # NoResponse
  /\ sample.frame.decodes
  /\ sample.frame.sharpness > 100
  /\ response.quality_scores.sharpness = 100

\* C23: for a degenerate input (zero width or zero height) the analysis
\* returns brightness = contrast = sharpness = 0.
DegenerateYieldsZeroStats ==
  (response # NoResponse /\ (sample.frame.width = 0 \/ sample.frame.height = 0))
    => /\ response.quality_scores.brightness = 0
       /\ response.quality_scores.contrast = 0
       /\ response.quality_scores.sharpness = 0

\* C24: whenever a face is reported detected the bounding box has a width
\* and a height above 0, and x, y, width and height lie in [0, 1].
DetectedBoxIsProper ==
  (response # NoResponse /\ response.face_detected)
    => /\ response.bounding_box.width > 0
       /\ response.bounding_box.height > 0
       /\ response.bounding_box.x \in 0..100
       /\ response.bounding_box.y \in 0..100
       /\ response.bounding_box.width \in 0..100
       /\ response.bounding_box.height \in 0..100

LowScoreIsExplained ==
  scored # NotScored =>
    /\ (scored.issues = << >>) <=> (scored.score = 100)
    /\ scored.score < 50 => Len(scored.issues) > 0

\* a score that keeps the gate closed was returned with its issues
BlockedWithIssues ==
  /\ scored # NotScored
  /\ scored.score < 50
  /\ ~GateOpen([overallScore |-> scored.score])
  /\ Len(scored.issues) > 0

\* C27: the image passed to onSelfieCapture is the still held for
\* confirmation at the moment of delivery: a still discarded by a retake
\* while the confirmation was processing is never delivered.
DeliversHeldStill ==
  [][\A k \in confirming :
       k.still \in delivered' \ delivered => (capturedImage = k.still)]_vars

\* C28: the age check passes exactly when an extracted age is present and
\* is at least 18.
AgeCheckIffAdult ==
  verificationResults # NoResults =>
    (verificationResults.ageVerified
       <=> (extractedData.age.present /\ extractedData.age.value >= 18))

\* an age of exactly 18 was checked and passed
AgeOnThresholdPassed ==
  /\ verificationResults # NoResults
  /\ extractedData.age.present
  /\ extractedData.age.value = 18
  /\ verificationResults.ageVerified

\* C29: at most one tick timer is active, and it is the one that
\* analysisIntervalRef holds, so that stopping the loop leaves none behind.
OneTickTimer ==
  /\ Cardinality(intervals) <= 1
  /\ \A iv \in intervals : iv.id = analysisIntervalRef

\* the calls started before call c that have settled
SettledBefore(c) == {j \in 1..(c.id - 1) : \A d \in inflight : d.id # j}

\* C30: assessments are committed in tick order: a call that settles when
\* the committed assessment comes from a later tick's frame changes neither
\* the assessment nor the gate.  While no call started before c has settled,
\* an assessment that is committed can only come from a tick after c's.
CommitsInTickOrder ==
  [][\A c \in inflight :
       (/\ c \notin inflight'
        /\ SettledBefore(c) = {}
        /\ qualityAnalysis # NoAnalysis)
         => (qualityAnalysis' = qualityAnalysis /\ canCapture' = canCapture)]_vars


\* the skin pixels of the sampled window are more than 15% of its samples
SkinAbove15Percent(f) == f.totalPixels > 0 /\ 100 * f.skinPixels > 15 * f.totalPixels

\* skinRatio in thousandths, 0 for a window without samples
SkinRatioOf(f) == IF f.totalPixels > 0 THEN (1000 * f.skinPixels) \div f.totalPixels ELSE 0

\* C31: on the heuristic path a face is reported exactly when skinRatio is
\* above 0.15; the confidence is 0.6 + 0.4 * skinRatio when detected and
\* skinRatio otherwise, hence above 0.5 when detected and at most 0.15 when not.
DetectedIffSkinAbove15 ==
  (response # NoResponse /\ sample.frame.decodes)
    => LET f == sample.frame
       IN /\ response.face_detected <=> SkinAbove15Percent(f)
          /\ response.face_detected
               => /\ response.confidence = 600 + (400 * f.skinPixels) \div f.totalPixels
                  /\ response.confidence > 500
          /\ ~response.face_detected
               => /\ response.confidence = SkinRatioOf(f)
                  /\ response.confidence <= 150

\* C31 witness: a window with exactly 15% skin pixels was analysed: not detected
RatioOnThresholdNotDetected ==
  /\ response # NoResponse
  /\ sample.frame.decodes
  /\ sample.frame.totalPixels > 0
  /\ 100 * sample.frame.skinPixels = 15 * sample.frame.totalPixels
  /\ ~response.face_detected
  /\ response.confidence = 150


\* the point at tenths (fx, fy) of the box, in thousandths of the frame
OffsetPoint(bbox, fx, fy) ==
  [x |-> 10 * bbox.x + fx * bbox.width, y |-> 10 * bbox.y + fy * bbox.height]

\* a point in thousandths lies inside a box given in hundredths
InsideBox(pt, bbox) ==
  /\ pt.x >= 10 * bbox.x /\ pt.x <= 10 * (bbox.x + bbox.width)
  /\ pt.y >= 10 * bbox.y /\ pt.y <= 10 * (bbox.y + bbox.height)

\* C35: in every result the provider returns the four landmarks lie inside
\* the bounding box of the result at the fixed offsets: eyes at 30% and 70%
\* of the width and 40% of the height, nose at 50%/60%, mouth at 50%/80%.
LandmarksAtBoxOffsets ==
  response # NoResponse
    => LET bbox == response.bounding_box
           lm == response.landmarks
       IN /\ lm.left_eye = OffsetPoint(bbox, 3, 4)
          /\ lm.right_eye = OffsetPoint(bbox, 7, 4)
          /\ lm.nose = OffsetPoint(bbox, 5, 6)
          /\ lm.mouth = OffsetPoint(bbox, 5, 8)
          /\ \A pt \in {lm.left_eye, lm.right_eye, lm.nose, lm.mouth} : InsideBox(pt, bbox)


\* C33: whatever the face match in [60, 100], a failed age check gives an
\* overallScore below 70, the threshold of a successful verification, and
\* in every case the overallScore lies in [0, 100].
FailedAgeCheckNeverVerified ==
  verificationResults # NoResults
    => /\ verificationResults.overallScore >= 0
       /\ verificationResults.overallScore <= 100
       /\ ~verificationResults.ageVerified => verificationResults.overallScore < 70

\* C33 witness: the age check failed with the highest face match drawn
FailedAgeBestFaceMatch ==
  /\ verificationResults # NoResults
  /\ ~verificationResults.ageVerified
  /\ faceMatch = 9999
  /\ verificationResults.overallScore = 67


\* the order of the steps, reset included
StepOrder ==
  {<<"intro", "document">>, <<"document", "selfie">>, <<"selfie", "results">>,
   <<"results", "intro">>}

\* verificationData = {}
DataEmpty ==
  /\ documentImage = 0 /\ extractedData = NoData
  /\ ~selfieImage /\ verificationResults = NoResults

\* C32: the step changes only along intro, document, selfie, results and
\* back to intro by reset; while the step stays intro the verification data
\* stay empty, whatever callback is still pending; and the results step is
\* shown only with both extractedData and verificationResults present.
StepsOnlyInOrder ==
  [][/\ currentStep' # currentStep => <<currentStep, currentStep'>> \in StepOrder
     /\ (currentStep = "intro" /\ currentStep' = "intro") => DataEmpty'
     /\ currentStep' = "results" => ResultsShown']_vars


\* an image of at most 5 MB
AcceptedFile(file) == file.image /\ file.size <= 5 * 1024 * 1024

=============================================================================
